---------------------------- MODULE Spec2Model ----------------------------
(***************************************************************************)
(* A model of dusk-blindbid: the Bid data structure (src/src/bid/bid.rs),  *)
(* the protocol constants (src/src/lib.rs) and the proof scenarios of      *)
(* src/src/proof/bid_tests.rs.                                             *)
(*                                                                         *)
(* The field and group arithmetic, the Poseidon sponge and cipher and the  *)
(* proving system are libraries outside the repository.  They are modelled *)
(* by small stand-ins that keep what the Bid code relies on: scalars are   *)
(* canonical integers below a modulus, a JubJub point is the pair of its   *)
(* coordinates with respect to the two generators G and G_NUMS, the sponge *)
(* is a keyed polynomial over the scalar field (a change of one absorbed   *)
(* word always changes the digest) and the cipher is the sponge-based      *)
(* stream cipher with an authentication word.                              *)
(***************************************************************************)
EXTENDS Integers, Sequences, FiniteSets, TLC

(***************************************************************************)
(* Bounds of the model.                                                    *)
(***************************************************************************)
\* Stand-in for the order of the JubJub scalar field (JubJubScalar).
FrModulus == 250007
\* Stand-in for the order of the BLS12-381 scalar field (BlsScalar).
BlsModulus == 1000003
\* Rounds, steps, eligibility and expiration range over 0..MaxRound.
MaxRound == 2
\* The randomness source is drawn from at most MaxDraws times in one run.
MaxDraws == 4

(***************************************************************************)
(* Protocol constants, src/src/lib.rs.                                     *)
(***************************************************************************)
V_RAW_MIN == 50000
V_RAW_MAX == 250000

\* JubJubScalar::from_raw: the scalar congruent to the given integer.
FromRaw(n) == n % FrModulus
\* JubJubScalar::reduce: the canonical integer of a scalar.
Reduce(x) == x % FrModulus

V_MIN == FromRaw(V_RAW_MIN)
V_MAX == FromRaw(V_RAW_MAX)

(***************************************************************************)
(* Scalars and points.                                                     *)
(***************************************************************************)
\* impl From<JubJubScalar> for BlsScalar: the same integer, in the larger field.
IntoBls(x) == x % BlsModulus
\* JubJubScalar::from_raw(*x.reduce().internal_repr()) for a BlsScalar x.
BlsToJubJub(x) == FromRaw(x % BlsModulus)

\* A point a*G + b*G_NUMS is the pair <<a, b>>.
JubJubAffineDefault == <<0, 0>>
BlsScalarDefault == 0
MulG(k) == <<Reduce(k), 0>>
MulGNums(k) == <<0, Reduce(k)>>
PointAdd(p, q) == <<(p[1] + q[1]) % FrModulus, (p[2] + q[2]) % FrModulus>>

(***************************************************************************)
(* poseidon252: sponge::hash and PoseidonCipher.                           *)
(***************************************************************************)
SpongeMul == 1009

RECURSIVE Absorb(_, _)
Absorb(h, xs) ==
    IF xs = << >> THEN h
    ELSE Absorb((h * SpongeMul + Head(xs) + 1) % BlsModulus, Tail(xs))

\* sponge::hash(&[..]): the digest of a sequence of scalars.
SpongeHash(xs) == Absorb(Len(xs), xs)

PoseidonCipherDefault == <<0, 0, 0>>

\* The i-th word of the key stream of (secret, nonce).
KeyStream(secret, nonce, i) == SpongeHash(<<secret[1], secret[2], nonce, i>>)
\* The authentication word over the two cipher words.
CipherTag(secret, nonce, c1, c2) ==
    SpongeHash(<<secret[1], secret[2], nonce, c1, c2>>)

\* PoseidonCipher::encrypt(&[m1, m2], secret, nonce).
PoseidonEncrypt(message, secret, nonce) ==
    LET c1 == (message[1] + KeyStream(secret, nonce, 1)) % BlsModulus
        c2 == (message[2] + KeyStream(secret, nonce, 2)) % BlsModulus
    IN  <<c1, c2, CipherTag(secret, nonce, c1, c2)>>

\* PoseidonCipher::decrypt(secret, nonce): Ok(message) or Err.
PoseidonDecrypt(cipher, secret, nonce) ==
    IF cipher[3] # CipherTag(secret, nonce, cipher[1], cipher[2])
    THEN [kind |-> "Err"]
    ELSE [kind |-> "Ok",
          message |->
            <<(cipher[1] + BlsModulus - KeyStream(secret, nonce, 1)) % BlsModulus,
              (cipher[2] + BlsModulus - KeyStream(secret, nonce, 2)) % BlsModulus>>]

(***************************************************************************)
(* Bid, src/src/bid/bid.rs.                                                *)
(***************************************************************************)
\* set_value with the blinder committed under G instead of G_NUMS.
SetValueOneGenerator(bid, blinder, nonce, value, secret) ==
    [bid EXCEPT
        !.nonce = nonce,
        !.encrypted_data =
            PoseidonEncrypt(<<IntoBls(value), IntoBls(blinder)>>, secret, nonce),
        !.c = PointAdd(MulG(value), MulG(blinder))]

\* set_value that encrypts under the nonce drawn but leaves self.nonce as it was.
SetValueKeepNonce(bid, blinder, nonce, value, secret) ==
    [bid EXCEPT
        !.encrypted_data =
            PoseidonEncrypt(<<IntoBls(value), IntoBls(blinder)>>, secret, nonce),
        !.c = PointAdd(MulG(value), MulGNums(blinder))]

\* Bid::set_value: blinder and nonce are the two draws from rng, in order.
SetValue(bid, blinder, nonce, value, secret) ==
    [bid EXCEPT
        !.nonce = nonce,
        !.encrypted_data =
            PoseidonEncrypt(<<IntoBls(value), IntoBls(blinder)>>, secret, nonce),
        !.c = PointAdd(MulG(value), MulGNums(blinder))]

\* The range check with V_MAX itself refused.
RangeCheckExclusive(value) ==
    LET gt == Reduce(value) >= Reduce(V_MAX)
        lt == Reduce(value) < Reduce(V_MIN)
    IN  CASE gt /\ ~lt -> "MaximumBidValueExceeded"
          [] ~gt /\ lt -> "MinimumBidValueUnreached"
          [] ~gt /\ ~lt -> "InRange"
          [] OTHER -> "unreachable"

\* The range check at the head of Bid::new.
RangeCheck(value) ==
    LET gt == Reduce(value) > Reduce(V_MAX)
        lt == Reduce(value) < Reduce(V_MIN)
    IN  CASE gt /\ ~lt -> "MaximumBidValueExceeded"
          [] ~gt /\ lt -> "MinimumBidValueUnreached"
          [] ~gt /\ ~lt -> "InRange"
          [] OTHER -> "unreachable"

\* The bid Bid::new fills before it calls set_value.
EmptyBid(stealth_address, secret_k, eligibility, expiration) ==
    [hashed_secret |-> SpongeHash(<<secret_k>>),
     eligibility |-> eligibility,
     expiration |-> expiration,
     c |-> JubJubAffineDefault,
     stealth_address |-> stealth_address,
     encrypted_data |-> PoseidonCipherDefault,
     nonce |-> BlsScalarDefault,
     pos |-> 0]

\* Bid::new that draws blinder and nonce ahead of the range check.
BidNewDrawsFirst(blinder, nonce, stealth_address, value, secret, secret_k, eligibility, expiration) ==
    LET r == RangeCheck(value)
        drawn == <<[ty |-> "JubJubScalar", v |-> blinder],
                   [ty |-> "BlsScalar", v |-> nonce]>>
    IN  CASE r = "MaximumBidValueExceeded" ->
               [kind |-> "MaximumBidValueExceeded", max_val |-> V_MAX,
                found |-> value, draws |-> drawn]
          [] r = "MinimumBidValueUnreached" ->
               [kind |-> "MinimumBidValueUnreached", min_val |-> V_MIN,
                found |-> value, draws |-> drawn]
          [] r = "InRange" ->
               [kind |-> "Ok",
                bid |-> SetValue(EmptyBid(stealth_address, secret_k,
                                          eligibility, expiration),
                                 blinder, nonce, value, secret),
                draws |-> drawn]
          [] OTHER -> [kind |-> "panic", draws |-> << >>]

\* Bid::new that returns the bid without the call of set_value.
BidNewNoSetValue(blinder, nonce, stealth_address, value, secret, secret_k, eligibility, expiration) ==
    LET r == RangeCheck(value)
    IN  CASE r = "MaximumBidValueExceeded" ->
               [kind |-> "MaximumBidValueExceeded", max_val |-> V_MAX,
                found |-> value, draws |-> << >>]
          [] r = "MinimumBidValueUnreached" ->
               [kind |-> "MinimumBidValueUnreached", min_val |-> V_MIN,
                found |-> value, draws |-> << >>]
          [] r = "InRange" ->
               [kind |-> "Ok",
                bid |-> EmptyBid(stealth_address, secret_k, eligibility,
                                 expiration),
                draws |-> << >>]
          [] OTHER -> [kind |-> "panic", draws |-> << >>]

\* Bid::new; blinder and nonce are what rng yields if it is drawn from.
BidNew(blinder, nonce, stealth_address, value, secret, secret_k, eligibility, expiration) ==
    LET r == RangeCheck(value)
    IN  CASE r = "MaximumBidValueExceeded" ->
               [kind |-> "MaximumBidValueExceeded", max_val |-> V_MAX,
                found |-> value, draws |-> << >>]
          [] r = "MinimumBidValueUnreached" ->
               [kind |-> "MinimumBidValueUnreached", min_val |-> V_MIN,
                found |-> value, draws |-> << >>]
          [] r = "InRange" ->
               [kind |-> "Ok",
                bid |-> SetValue(EmptyBid(stealth_address, secret_k,
                                          eligibility, expiration),
                                 blinder, nonce, value, secret),
                draws |-> <<[ty |-> "JubJubScalar", v |-> blinder],
                            [ty |-> "BlsScalar", v |-> nonce]>>]
          [] OTHER -> [kind |-> "panic", draws |-> << >>]

\* decrypt_data with the two words of the message taken in the other order.
DecryptDataSwapped(bid, secret) ==
    LET r == PoseidonDecrypt(bid.encrypted_data, secret, bid.nonce)
    IN  IF r.kind = "Ok"
        THEN [kind |-> "Ok",
              value |-> BlsToJubJub(r.message[2]),
              blinder |-> BlsToJubJub(r.message[1])]
        ELSE [kind |-> "WrongSecretProvided"]

\* decrypt_data that answers a failed decryption with default scalars.
DecryptDataLenient(bid, secret) ==
    LET r == PoseidonDecrypt(bid.encrypted_data, secret, bid.nonce)
    IN  IF r.kind = "Ok"
        THEN [kind |-> "Ok",
              value |-> BlsToJubJub(r.message[1]),
              blinder |-> BlsToJubJub(r.message[2])]
        ELSE [kind |-> "Ok", value |-> 0, blinder |-> 0]

\* Bid::decrypt_data.
DecryptData(bid, secret) ==
    LET r == PoseidonDecrypt(bid.encrypted_data, secret, bid.nonce)
    IN  IF r.kind = "Ok"
        THEN [kind |-> "Ok",
              value |-> BlsToJubJub(r.message[1]),
              blinder |-> BlsToJubJub(r.message[2])]
        ELSE [kind |-> "WrongSecretProvided"]

\* generate_prover_id that absorbs the nonce of the bid as a fifth word.
GenerateProverIdOfBid(bid, secret_k, seed, round, step) ==
    SpongeHash(<<secret_k, seed, round, step, bid.nonce>>)

\* Bid::generate_prover_id.
GenerateProverId(bid, secret_k, seed, round, step) ==
    SpongeHash(<<secret_k, seed, round, step>>)

(***************************************************************************)
(* Fixed-width encodings (dusk_bytes::Serializable of the field types).    *)
(***************************************************************************)
BlsScalarSize == 32
JubJubAffineSize == 32
StealthAddressSize == 64
PoseidonCipherSize == 96
U64Size == 8

RECURSIVE ToLE(_, _)
\* The w low bytes of n, least significant first.
ToLE(n, w) == IF w = 0 THEN << >> ELSE <<n % 256>> \o ToLE(n \div 256, w - 1)

RECURSIVE FromLE(_)
FromLE(bytes) ==
    IF bytes = << >> THEN 0 ELSE Head(bytes) + 256 * FromLE(Tail(bytes))

\* Whether a little-endian slice denotes an integer below the modulus m
\* (m is below 2^31, so the bytes from the fifth on have to be zero).
Canonical(bytes, m) ==
    /\ \A i \in 5 .. Len(bytes) : bytes[i] = 0
    /\ bytes[4] < 128
    /\ FromLE(SubSeq(bytes, 1, 4)) < m

Slice(buf, lo, hi) == SubSeq(buf, lo + 1, hi)

\* BlsScalar::to_bytes / BlsScalar::from_slice.
BlsToBytes(x) == ToLE(x, BlsScalarSize)
BlsFromSlice(s) ==
    IF Len(s) = BlsScalarSize /\ Canonical(s, BlsModulus)
    THEN [kind |-> "Ok", v |-> FromLE(SubSeq(s, 1, 4))]
    ELSE [kind |-> "Err"]

\* JubJubAffine::to_bytes / JubJubAffine::from_slice: 16 bytes a coordinate.
PointToBytes(p) == ToLE(p[1], 16) \o ToLE(p[2], 16)
PointFromSlice(s) ==
    IF /\ Len(s) = JubJubAffineSize
       /\ Canonical(SubSeq(s, 1, 16), FrModulus)
       /\ Canonical(SubSeq(s, 17, 32), FrModulus)
    THEN [kind |-> "Ok", v |-> <<FromLE(SubSeq(s, 1, 4)), FromLE(SubSeq(s, 17, 20))>>]
    ELSE [kind |-> "Err"]

\* StealthAddress::to_bytes / from_slice: the two points R and pk_r.
StealthToBytes(a) == PointToBytes(a[1]) \o PointToBytes(a[2])
StealthFromSlice(s) ==
    IF Len(s) # StealthAddressSize THEN [kind |-> "Err"]
    ELSE LET r == PointFromSlice(SubSeq(s, 1, 32))
             k == PointFromSlice(SubSeq(s, 33, 64))
         IN  IF r.kind = "Ok" /\ k.kind = "Ok"
             THEN [kind |-> "Ok", v |-> <<r.v, k.v>>]
             ELSE [kind |-> "Err"]

\* PoseidonCipher::to_bytes / from_slice: three scalars.
CipherToBytes(c) == BlsToBytes(c[1]) \o BlsToBytes(c[2]) \o BlsToBytes(c[3])
CipherFromSlice(s) ==
    IF Len(s) # PoseidonCipherSize THEN [kind |-> "Err"]
    ELSE LET w1 == BlsFromSlice(SubSeq(s, 1, 32))
             w2 == BlsFromSlice(SubSeq(s, 33, 64))
             w3 == BlsFromSlice(SubSeq(s, 65, 96))
         IN  IF w1.kind = "Ok" /\ w2.kind = "Ok" /\ w3.kind = "Ok"
             THEN [kind |-> "Ok", v |-> <<w1.v, w2.v, w3.v>>]
             ELSE [kind |-> "Err"]

\* u64::to_le_bytes / u64::from_le_bytes.
U64ToLE(n) == ToLE(n, U64Size)
U64FromLE(s) == FromLE(s)

(***************************************************************************)
(* impl Serializable for Bid.                                              *)
(***************************************************************************)
\* Self::SIZE, the const generic of the impl.
BidSize ==
    PoseidonCipherSize + StealthAddressSize + 2 * BlsScalarSize
        + JubJubAffineSize + 8 * 3

\* buf[lo..hi].copy_from_slice(src): panics when the lengths differ or the
\* range leaves the buffer.
CopyFromSlice(buf, lo, hi, src) ==
    IF ~buf.ok \/ lo > hi \/ hi > Len(buf.bytes) \/ hi - lo # Len(src)
    THEN [ok |-> FALSE, bytes |-> << >>]
    ELSE [ok |-> TRUE,
          bytes |-> [i \in 1 .. Len(buf.bytes) |->
                        IF lo < i /\ i <= hi THEN src[i - lo] ELSE buf.bytes[i]]]

\* The ranges buf[lo..hi] to_bytes writes, in the order of its statements.
ToBytesRanges ==
    << <<0, PoseidonCipherSize>>, <<PoseidonCipherSize, 128>>, <<128, 192>>,
       <<192, 224>>, <<224, 256>>, <<256, 264>>, <<264, 272>>,
       <<272, BidSize>> >>

\* The ranges buf[lo..hi] from_bytes reads, in the order of its statements.
FromBytesRanges ==
    << <<0, PoseidonCipherSize>>, <<PoseidonCipherSize, 128>>, <<128, 192>>,
       <<192, 224>>, <<224, 256>>, <<256, 264>>, <<264, 272>>,
       <<272, BidSize>> >>

\* What to_bytes copies into the buffer, statement by statement.
FieldBytes(bid) ==
    <<CipherToBytes(bid.encrypted_data), BlsToBytes(bid.nonce),
      StealthToBytes(bid.stealth_address), BlsToBytes(bid.hashed_secret),
      PointToBytes(bid.c), U64ToLE(bid.eligibility), U64ToLE(bid.expiration),
      U64ToLE(bid.pos)>>

\* to_bytes with the slots of nonce and hashed_secret exchanged.
ToBytesSwapped(bid) ==
    LET b0 == [ok |-> TRUE, bytes |-> [i \in 1 .. BidSize |-> 0]]
        b1 == CopyFromSlice(b0, 0, PoseidonCipherSize,
                            CipherToBytes(bid.encrypted_data))
        b2 == CopyFromSlice(b1, 192, 224, BlsToBytes(bid.nonce))
        b3 == CopyFromSlice(b2, 128, 192, StealthToBytes(bid.stealth_address))
        b4 == CopyFromSlice(b3, PoseidonCipherSize, 128,
                            BlsToBytes(bid.hashed_secret))
        b5 == CopyFromSlice(b4, 224, 256, PointToBytes(bid.c))
        b6 == CopyFromSlice(b5, 256, 264, U64ToLE(bid.eligibility))
        b7 == CopyFromSlice(b6, 264, 272, U64ToLE(bid.expiration))
    IN  CopyFromSlice(b7, 272, BidSize, U64ToLE(bid.pos))

\* to_bytes with the expiration written over the eligibility.
ToBytesSameSlot(bid) ==
    LET b0 == [ok |-> TRUE, bytes |-> [i \in 1 .. BidSize |-> 0]]
        b1 == CopyFromSlice(b0, 0, PoseidonCipherSize,
                            CipherToBytes(bid.encrypted_data))
        b2 == CopyFromSlice(b1, PoseidonCipherSize, 128, BlsToBytes(bid.nonce))
        b3 == CopyFromSlice(b2, 128, 192, StealthToBytes(bid.stealth_address))
        b4 == CopyFromSlice(b3, 192, 224, BlsToBytes(bid.hashed_secret))
        b5 == CopyFromSlice(b4, 224, 256, PointToBytes(bid.c))
        b6 == CopyFromSlice(b5, 256, 264, U64ToLE(bid.eligibility))
        b7 == CopyFromSlice(b6, 256, 264, U64ToLE(bid.expiration))
    IN  CopyFromSlice(b7, 272, BidSize, U64ToLE(bid.pos))

\* Bid::to_bytes; ok = FALSE stands for a panic of copy_from_slice.
ToBytes(bid) ==
    LET b0 == [ok |-> TRUE, bytes |-> [i \in 1 .. BidSize |-> 0]]
        b1 == CopyFromSlice(b0, 0, PoseidonCipherSize,
                            CipherToBytes(bid.encrypted_data))
        b2 == CopyFromSlice(b1, PoseidonCipherSize, 128, BlsToBytes(bid.nonce))
        b3 == CopyFromSlice(b2, 128, 192, StealthToBytes(bid.stealth_address))
        b4 == CopyFromSlice(b3, 192, 224, BlsToBytes(bid.hashed_secret))
        b5 == CopyFromSlice(b4, 224, 256, PointToBytes(bid.c))
        b6 == CopyFromSlice(b5, 256, 264, U64ToLE(bid.eligibility))
        b7 == CopyFromSlice(b6, 264, 272, U64ToLE(bid.expiration))
    IN  CopyFromSlice(b7, 272, BidSize, U64ToLE(bid.pos))

\* Bid::from_bytes on a buffer of Self::SIZE bytes.
FromBytes(buf) ==
    LET encrypted_data == CipherFromSlice(Slice(buf, 0, PoseidonCipherSize))
        nonce == BlsFromSlice(Slice(buf, PoseidonCipherSize, 128))
        stealth_address == StealthFromSlice(Slice(buf, 128, 192))
        hashed_secret == BlsFromSlice(Slice(buf, 192, 224))
        c == PointFromSlice(Slice(buf, 224, 256))
    IN  IF \/ encrypted_data.kind # "Ok" \/ nonce.kind # "Ok"
           \/ stealth_address.kind # "Ok" \/ hashed_secret.kind # "Ok"
           \/ c.kind # "Ok"
        THEN [kind |-> "Err"]
        ELSE IF Len(Slice(buf, 256, 264)) # 8 \/ Len(Slice(buf, 264, 272)) # 8
                \/ Len(Slice(buf, 272, BidSize)) # 8
        THEN [kind |-> "panic"]
        ELSE [kind |-> "Ok",
              bid |-> [encrypted_data |-> encrypted_data.v,
                       nonce |-> nonce.v,
                       stealth_address |-> stealth_address.v,
                       hashed_secret |-> hashed_secret.v,
                       c |-> c.v,
                       eligibility |-> U64FromLE(Slice(buf, 256, 264)),
                       expiration |-> U64FromLE(Slice(buf, 264, 272)),
                       pos |-> U64FromLE(Slice(buf, 272, BidSize))]]

(***************************************************************************)
(* Bid::hash and equality.                                                 *)
(***************************************************************************)
\* The words of every field of a bid, in the order of the struct.
BidWords(bid) ==
    <<bid.encrypted_data[1], bid.encrypted_data[2], bid.encrypted_data[3],
      bid.nonce,
      bid.stealth_address[1][1], bid.stealth_address[1][2],
      bid.stealth_address[2][1], bid.stealth_address[2][2],
      bid.hashed_secret, bid.c[1], bid.c[2],
      bid.eligibility, bid.expiration, bid.pos>>

\* Bid::hash: the canonical digest, one sponge hash over all fields.
BidHash(bid) == SpongeHash(BidWords(bid))

\* Equality that compares the commitments only.
BidEqCommitment(a, b) == a.c = b.c

\* impl PartialEq for Bid.
BidEq(a, b) == BidHash(a) = BidHash(b)

(***************************************************************************)
(* The Merkle tree of bids.                                                *)
(***************************************************************************)
\* BidTree::push(bid.into()): the leaf is the digest of the bid.
TreePush(t, b) == Append(t, BidHash(b))

\* BidTree::poseidon_branch(idx).
PoseidonBranch(t, idx) ==
    [root |-> SpongeHash(t), leaf |-> t[idx + 1], pos |-> idx]

(***************************************************************************)
(* Score.                                                                  *)
(***************************************************************************)
\* The score of a bid value under the round's randomness.
ScoreValue(value, secret_k, root, seed, round, step) ==
    SpongeHash(<<value, secret_k, root, seed, round, step>>)

\* The window the proof scenarios rely on: the round is not above the
\* eligibility and not above the expiration of the bid.
InWindow(b, round) == round <= b.eligibility /\ round <= b.expiration

\* Score::compute.
ScoreCompute(b, secret, secret_k, root, seed, round, step) ==
    LET d == DecryptData(b, secret)
    IN  IF d.kind # "Ok" THEN [kind |-> "WrongSecretProvided"]
        ELSE IF round > b.expiration THEN [kind |-> "ExpiredBid"]
        ELSE IF round > b.eligibility THEN [kind |-> "NonEligibleBid"]
        ELSE [kind |-> "Ok",
              value |-> ScoreValue(d.value, secret_k, root, seed, round, step)]

\* Score::default().
ScoreDefault == [kind |-> "Ok", value |-> 0]

(***************************************************************************)
(* BlindBidCircuit.                                                        *)
(***************************************************************************)
\* The constraints without the inclusion of the bid digest under the root.
SatisfiedNoInclusion(cir) ==
    LET d == DecryptData(cir.bid, cir.secret)
    IN  /\ d.kind = "Ok"
        /\ cir.bid.c = PointAdd(MulG(d.value), MulGNums(d.blinder))
        /\ cir.bid.hashed_secret = SpongeHash(<<cir.secret_k>>)
        /\ InWindow(cir.bid, cir.round)
        /\ cir.score.value =
              ScoreValue(d.value, cir.secret_k, cir.branch.root, cir.seed,
                         cir.round, cir.step)

\* Whether the witnesses of a circuit satisfy its constraints.
Satisfied(cir) ==
    LET d == DecryptData(cir.bid, cir.secret)
    IN  /\ d.kind = "Ok"
        /\ cir.branch.leaf = BidHash(cir.bid)
        /\ cir.bid.c = PointAdd(MulG(d.value), MulGNums(d.blinder))
        /\ cir.bid.hashed_secret = SpongeHash(<<cir.secret_k>>)
        /\ InWindow(cir.bid, cir.round)
        /\ cir.score.value =
              ScoreValue(d.value, cir.secret_k, cir.branch.root, cir.seed,
                         cir.round, cir.step)

\* The public inputs the witnesses of a circuit bind, in their fixed order:
\* root, bid digest, commitment, hashed secret, prover-id, score.
CircuitInputs(cir) ==
    <<cir.branch.root,
      BidHash(cir.bid),
      cir.bid.c,
      cir.bid.hashed_secret,
      GenerateProverId(cir.bid, cir.secret_k, cir.seed, cir.round, cir.step),
      cir.score.value>>

\* circuit.gen_proof(pub_params, pk, label): the prover emits a proof for
\* whatever witnesses it holds.
GenProof(cir, label) ==
    [label |-> label, sat |-> Satisfied(cir), pi |-> CircuitInputs(cir)]

\* verify_proof that leaves the score out of the comparison.
VerifyProofNoScore(vcir, label, prf, pi) ==
    IF prf.sat /\ prf.label = label /\ SubSeq(prf.pi, 1, 5) = SubSeq(pi, 1, 5)
    THEN [kind |-> "Ok"]
    ELSE [kind |-> "Err"]

\* circuit.verify_proof(pub_params, vk, label, proof, pi), on the circuit
\* instance vcir of the verifier.
VerifyProof(vcir, label, prf, pi) ==
    IF prf.sat /\ prf.label = label /\ prf.pi = pi
    THEN [kind |-> "Ok"]
    ELSE [kind |-> "Err"]

(***************************************************************************)
(* The state machine: a caller of the Bid API.                             *)
(***************************************************************************)
VARIABLES
    pc,        \* where the caller stands: "start", "bid", "altered", ...
    args,      \* the arguments of the last Bid::new
    res,       \* the result of the last Bid::new
    bid,       \* the caller's bid (its fields are pub), once there is one
    rngCount,  \* how many values were drawn from rng so far
    out,       \* the result of the last call other than Bid::new
    buf,       \* the buffer of the last to_bytes
    tree,      \* the leaves of the BidTree
    score,     \* the result of the last Score::compute, with its arguments
    circuit,   \* the BlindBidCircuit of the prover
    proof      \* the proof gen_proof returned

vars == <<pc, args, res, bid, rngCount, out, buf, tree, score, circuit, proof>>

\* The inputs the caller draws from.
Values ==
    {0, V_RAW_MIN - 1, V_RAW_MIN, V_RAW_MAX, V_RAW_MAX + 1, FrModulus - 1}
Secrets == {MulG(11), MulG(12)}
SecretKs == {1, 2}
Rounds == 0 .. MaxRound
Seeds == {7}
Steps == {1}
StealthAddrs == {<<MulG(21), MulG(22)>>}
Blinders == {3, FrModulus - 1}
\* A drawn nonce may be any scalar, zero (the value of the placeholder) included.
Nonces == {0, BlsModulus - 1}
Labels == {"CorrectBid", "OtherLabel"}

NoArgs == [called |-> FALSE]
NoRes == [kind |-> "none"]
NoBid == [none |-> TRUE]
NoOut == [op |-> "none"]
NoBuf == [ok |-> FALSE, bytes |-> << >>]
NoScore == [r |-> [kind |-> "none"]]
NoCircuit == [none |-> TRUE]
NoProof == [none |-> TRUE]

Init ==
    /\ pc = "start"
    /\ args = NoArgs
    /\ res = NoRes
    /\ bid = NoBid
    /\ rngCount = 0
    /\ out = NoOut
    /\ buf = NoBuf
    /\ tree = << >>
    /\ score = NoScore
    /\ circuit = NoCircuit
    /\ proof = NoProof

\* Bid::new(rng, stealth_address, value, secret, secret_k, eligibility,
\* expiration).
CallBidNew ==
    /\ pc = "start"
    /\ rngCount + 2 <= MaxDraws
    /\ \E value \in Values, secret \in Secrets, secret_k \in SecretKs,
          eligibility \in Rounds, expiration \in Rounds,
          stealth_address \in StealthAddrs,
          blinder \in Blinders, nonce \in Nonces :
          LET r == BidNew(blinder, nonce, stealth_address, value, secret,
                          secret_k, eligibility, expiration)
          IN  /\ args' = [called |-> TRUE, value |-> value, secret |-> secret,
                          secret_k |-> secret_k, eligibility |-> eligibility,
                          expiration |-> expiration,
                          stealth_address |-> stealth_address]
              /\ res' = r
              /\ rngCount' = rngCount + Len(r.draws)
              /\ bid' = IF r.kind = "Ok" THEN r.bid ELSE NoBid
              /\ pc' = CASE r.kind = "Ok" -> "bid"
                         [] r.kind = "panic" -> "panic"
                         [] OTHER -> "start"
    /\ out' = NoOut
    /\ buf' = NoBuf
    /\ UNCHANGED <<tree, score, circuit, proof>>

\* bid.decrypt_data(secret).
CallDecryptData ==
    /\ pc \in {"bid", "altered"}
    /\ \E secret \in Secrets :
          out' = [op |-> "decrypt_data", secret |-> secret,
                  r |-> DecryptData(bid, secret)]
    /\ UNCHANGED <<pc, args, res, bid, rngCount, buf, tree, score, circuit,
                   proof>>

\* The caller overwrites the pub field nonce.
AlterNonce ==
    /\ pc = "bid"
    /\ \E n \in Nonces \ {bid.nonce} : bid' = [bid EXCEPT !.nonce = n]
    /\ pc' = "altered"
    /\ out' = NoOut
    /\ buf' = NoBuf
    /\ UNCHANGED <<args, res, rngCount, tree, score, circuit, proof>>

\* The caller overwrites one word of the pub field encrypted_data.
AlterCipher ==
    /\ pc = "bid"
    /\ \E i \in 1 .. 3 :
          bid' = [bid EXCEPT !.encrypted_data[i] = (@ + 1) % BlsModulus]
    /\ pc' = "altered"
    /\ out' = NoOut
    /\ buf' = NoBuf
    /\ UNCHANGED <<args, res, rngCount, tree, score, circuit, proof>>

\* bid.to_bytes().
CallToBytes ==
    /\ pc = "bid"
    /\ buf' = ToBytes(bid)
    /\ out' = [op |-> "to_bytes"]
    /\ UNCHANGED <<pc, args, res, bid, rngCount, tree, score, circuit, proof>>

\* Bid::from_bytes(&bytes) on the buffer of the last to_bytes.
CallFromBytes ==
    /\ pc = "bid"
    /\ buf.ok
    /\ out' = [op |-> "from_bytes", r |-> FromBytes(buf.bytes)]
    /\ UNCHANGED <<pc, args, res, bid, rngCount, buf, tree, score, circuit,
                   proof>>

\* tree.push(bid.into()).
CallTreePush ==
    /\ pc = "bid"
    /\ tree' = TreePush(tree, bid)
    /\ pc' = "pushed"
    /\ out' = NoOut
    /\ buf' = NoBuf
    /\ UNCHANGED <<args, res, bid, rngCount, score, circuit, proof>>

\* Score::compute(&bid, &secret, secret_k, *branch.root(), seed, round, step).
CallScoreCompute ==
    /\ pc = "pushed"
    /\ \E secret \in Secrets, round \in Rounds, seed \in Seeds, step \in Steps :
          LET r == ScoreCompute(bid, secret, args.secret_k,
                                PoseidonBranch(tree, 0).root, seed, round, step)
          IN  /\ score' = [r |-> r, secret |-> secret, seed |-> seed,
                           round |-> round, step |-> step, edited |-> FALSE]
              /\ pc' = IF r.kind = "Ok" THEN "scored" ELSE "pushed"
    /\ UNCHANGED <<args, res, bid, rngCount, out, buf, tree, circuit, proof>>

\* score.value = score.value() + BlsScalar::from(100u64).
EditScore ==
    /\ pc = "scored"
    /\ ~score.edited
    /\ score' = [score EXCEPT !.r.value = (@ + 100) % BlsModulus,
                              !.edited = TRUE]
    /\ UNCHANGED <<pc, args, res, bid, rngCount, out, buf, tree, circuit, proof>>

\* The caller overwrites a pub field of the bid that is already in the tree,
\* such as bid.hashed_secret = BlsScalar::from(63463245u64).
EditBid ==
    /\ pc = "scored"
    /\ bid = res.bid
    /\ \/ bid' = [bid EXCEPT !.hashed_secret = 63463245 % BlsModulus]
       \/ \E t \in Rounds \ {bid.expiration} :
             bid' = [bid EXCEPT !.expiration = t]
       \/ bid' = [bid EXCEPT !.pos = 1]
    /\ UNCHANGED <<pc, args, res, rngCount, out, buf, tree, score, circuit,
                   proof>>

\* BlindBidCircuit { bid, score, secret_k, secret, seed,
\* latest_consensus_round, latest_consensus_step, branch, .. }.
BuildCircuit ==
    /\ pc = "scored"
    /\ \E round \in Rounds :
          circuit' = [bid |-> bid, score |-> score.r,
                      secret_k |-> args.secret_k, secret |-> score.secret,
                      seed |-> score.seed, round |-> round,
                      step |-> score.step,
                      branch |-> PoseidonBranch(tree, 0)]
    /\ pc' = "circuit"
    /\ UNCHANGED <<args, res, bid, rngCount, out, buf, tree, score, proof>>

\* circuit.compile(&pub_params).
CallCompile ==
    /\ pc = "circuit"
    /\ pc' = "compiled"
    /\ UNCHANGED <<args, res, bid, rngCount, out, buf, tree, score, circuit,
                   proof>>

\* circuit.gen_proof(&pub_params, &pk, label).
CallGenProof ==
    /\ pc = "compiled"
    /\ proof' = GenProof(circuit, "CorrectBid")
    /\ pc' = "proved"
    /\ UNCHANGED <<args, res, bid, rngCount, out, buf, tree, score, circuit>>

\* The circuit instance a verifier holds: the public fields of the prover's,
\* with Score::default(), secret_k = 1 and JubJubAffine::default().
DummyCircuit(cir) ==
    [cir EXCEPT !.score = ScoreDefault, !.secret_k = 1,
                !.secret = JubJubAffineDefault]

\* The vector pi of the scenarios: root, bid.hash(), bid.c, bid.hashed_secret,
\* prover_id, score.value().
PublicInputs(branch, b, prover_id, score_value) ==
    <<branch.root, BidHash(b), b.c, b.hashed_secret, prover_id, score_value>>

\* circuit.verify_proof(&pub_params, &vk, label, &proof, &pi).
CallVerifyProof ==
    /\ pc = "proved"
    /\ \E dummy \in BOOLEAN, label \in Labels, raised \in BOOLEAN,
          pid_round \in {circuit.round, score.round} :
          LET vcir == IF dummy THEN DummyCircuit(circuit) ELSE circuit
              pid == GenerateProverId(bid, args.secret_k, score.seed,
                                      pid_round, score.step)
              sv == IF raised THEN (score.r.value + 100) % BlsModulus
                    ELSE score.r.value
              pi == PublicInputs(circuit.branch, bid, pid, sv)
          IN  out' = [op |-> "verify_proof", dummy |-> dummy, label |-> label,
                      pi |-> pi, r |-> VerifyProof(vcir, label, proof, pi)]
    /\ pc' = "verified"
    /\ UNCHANGED <<args, res, bid, rngCount, buf, tree, score, circuit, proof>>

\* bid.set_value(rng, value, secret), from inside the crate, on a bid of
\* Bid::new; set_value has no range check of its own.
CallSetValue ==
    /\ pc = "bid"
    /\ rngCount + 2 <= MaxDraws
    /\ \E value \in Values, secret \in Secrets, blinder \in Blinders,
          nonce \in Nonces :
          /\ bid' = SetValue(bid, blinder, nonce, value, secret)
          /\ out' = [op |-> "set_value", value |-> value, secret |-> secret,
                     draws |-> <<[ty |-> "JubJubScalar", v |-> blinder],
                                 [ty |-> "BlsScalar", v |-> nonce]>>]
    /\ rngCount' = rngCount + 2
    /\ pc' = "revalued"
    /\ buf' = NoBuf
    /\ UNCHANGED <<args, res, tree, score, circuit, proof>>

\* bid.generate_prover_id(secret_k, seed, round, step) on the bid the caller
\* holds, fresh or overwritten.
CallGenerateProverId ==
    /\ pc \in {"bid", "altered"}
    /\ \E secret_k \in SecretKs, seed \in Seeds, round \in Rounds,
          step \in Rounds :
          out' = [op |-> "generate_prover_id", secret_k |-> secret_k,
                  seed |-> seed, round |-> round, step |-> step,
                  r |-> GenerateProverId(bid, secret_k, seed, round, step)]
    /\ UNCHANGED <<pc, args, res, bid, rngCount, buf, tree, score, circuit,
                   proof>>

\* The bids a caller holds and may compare: the one Bid::new returned, the
\* one it holds now (perhaps overwritten) and the default-filled one.
HeldBids ==
    {res.bid, bid,
     EmptyBid(args.stealth_address, args.secret_k, args.eligibility,
              args.expiration)}

\* a == b on two bids the caller holds.
CallBidEq ==
    /\ pc \in {"bid", "altered"}
    /\ \E a \in HeldBids, b \in HeldBids :
          out' = [op |-> "eq", a |-> a, b |-> b, r |-> BidEq(a, b)]
    /\ UNCHANGED <<pc, args, res, bid, rngCount, buf, tree, score, circuit,
                   proof>>

Next ==
    \/ CallBidNew
    \/ CallDecryptData
    \/ AlterNonce
    \/ AlterCipher
    \/ CallToBytes
    \/ CallFromBytes
    \/ CallTreePush
    \/ CallScoreCompute
    \/ EditScore
    \/ EditBid
    \/ BuildCircuit
    \/ CallCompile
    \/ CallGenProof
    \/ CallVerifyProof
    \/ CallBidEq
    \/ CallSetValue
    \/ CallGenerateProverId

Spec == Init /\ [][Next]_vars

(***************************************************************************)
(* Properties.                                                             *)
(***************************************************************************)

\* C1: Bid::new never panics and has exactly one of three outcomes: it fails
\* with MaximumBidValueExceeded {max_val = V_MAX, found = value} when value >
\* V_MAX, with MinimumBidValueUnreached {min_val = V_MIN, found = value} when
\* value < V_MIN, and succeeds for V_MIN <= value <= V_MAX, both ends
\* included; the bid then holds the value as passed, never a clamped one.
C1_RangeEnforced ==
    args.called =>
        /\ res.kind \in {"Ok", "MaximumBidValueExceeded",
                         "MinimumBidValueUnreached"}
        /\ args.value > V_RAW_MAX <=>
              /\ res.kind = "MaximumBidValueExceeded"
              /\ res.max_val = V_RAW_MAX
              /\ res.found = args.value
        /\ args.value < V_RAW_MIN <=>
              /\ res.kind = "MinimumBidValueUnreached"
              /\ res.min_val = V_RAW_MIN
              /\ res.found = args.value
        /\ (V_RAW_MIN <= args.value /\ args.value <= V_RAW_MAX) <=>
              /\ res.kind = "Ok"
              /\ res.bid.c[1] = args.value
              /\ DecryptData(res.bid, args.secret).value = args.value

\* A bid of exactly V_MAX was built.
C1_Witness == args.called /\ args.value = V_RAW_MAX /\ res.kind = "Ok"

\* C2: for every bid b of Bid::new, Bid::from_bytes(b.to_bytes()) succeeds
\* with a bid of the same digest as b, equal to b under ==, and each of the
\* eight fields is the one of b.
C2_RoundTrip ==
    out.op = "from_bytes" =>
        /\ out.r.kind = "Ok"
        /\ BidHash(out.r.bid) = BidHash(bid)
        /\ BidEq(out.r.bid, bid)
        /\ out.r.bid = bid

\* A bid with distinct, nonzero eligibility and expiration went through
\* to_bytes and from_bytes.
C2_Witness ==
    /\ out.op = "from_bytes"
    /\ out.r.kind = "Ok"
    /\ bid.eligibility > 0
    /\ bid.expiration > bid.eligibility

\* C3: on a bid of Bid::new, decrypt_data with the shared secret of the
\* construction returns Ok((value, blinder)): the value passed to Bid::new
\* and the blinder set_value drew from rng.
C3_DecryptRecovers ==
    (out.op = "decrypt_data" /\ pc = "bid" /\ out.secret = args.secret) =>
        out.r = [kind |-> "Ok", value |-> args.value,
                 blinder |-> res.draws[1].v]

\* decrypt_data with the right secret ran on a bid whose blinder is the
\* largest scalar.
C3_Witness ==
    /\ out.op = "decrypt_data"
    /\ pc = "bid"
    /\ out.secret = args.secret
    /\ res.draws[1].v = FrModulus - 1
    /\ out.r.kind = "Ok"

\* C4: decrypt_data with a secret other than the one of the construction, or
\* on a bid whose nonce or ciphertext was overwritten, returns
\* Err(WrongSecretProvided) and nothing else: no other error kind exists and
\* a failure carries no value and no blinder.
C4_WrongSecret ==
    out.op = "decrypt_data" =>
        /\ out.r.kind \in {"Ok", "WrongSecretProvided"}
        /\ (\/ out.secret # args.secret
            \/ bid.nonce # res.bid.nonce
            \/ bid.encrypted_data # res.bid.encrypted_data)
           => out.r = [kind |-> "WrongSecretProvided"]

\* decrypt_data with the right secret failed on a bid whose ciphertext was
\* overwritten.
C4_Witness ==
    /\ out.op = "decrypt_data"
    /\ out.secret = args.secret
    /\ bid.encrypted_data # res.bid.encrypted_data
    /\ out.r.kind = "WrongSecretProvided"

\* C5 (as claimed): Score::compute fails with an eligibility error whenever
\* round < bid.eligibility, with an expiration error whenever round >
\* bid.expiration, and returns a Score only when bid.eligibility <= round <=
\* bid.expiration.
C5_WindowAsClaimed ==
    score.r.kind # "none" =>
        /\ score.round < res.bid.eligibility => score.r.kind = "NonEligibleBid"
        /\ score.round > res.bid.expiration => score.r.kind = "ExpiredBid"
        /\ score.r.kind = "Ok" =>
              /\ res.bid.eligibility <= score.round
              /\ score.round <= res.bid.expiration

\* The honest flow: the bid is the one in the tree, the score of the circuit
\* is what Score::compute returns for the witnesses of the circuit, the label
\* is the one of the proof and pi lists root, bid digest, commitment, hashed
\* secret, prover-id and score value of the circuit.
HonestFlow ==
    /\ out.op = "verify_proof"
    /\ circuit.bid = res.bid
    /\ tree = <<BidHash(res.bid)>>
    /\ circuit.score =
          ScoreCompute(circuit.bid, circuit.secret, circuit.secret_k,
                       circuit.branch.root, circuit.seed, circuit.round,
                       circuit.step)
    /\ out.label = proof.label
    /\ out.pi = <<circuit.branch.root, BidHash(bid), bid.c, bid.hashed_secret,
                  GenerateProverId(bid, circuit.secret_k, circuit.seed,
                                   circuit.round, circuit.step),
                  circuit.score.value>>

\* C6: the honest flow (bid of an in-range value pushed into the tree, score
\* from Score::compute, compile, gen_proof, verify_proof with the same label
\* and the six public inputs in their order) returns Ok, also when the
\* circuit of the verifier carries dummy secrets.
C6_HonestFlowVerifies == HonestFlow => out.r.kind = "Ok"

\* An honest flow was verified on a circuit with dummy secrets.
C6_Witness == HonestFlow /\ out.dummy /\ out.r.kind = "Ok"

\* The score the Score function yields for the witnesses of the circuit.
ExpectedScore ==
    ScoreValue(args.value, circuit.secret_k, circuit.branch.root,
               circuit.seed, circuit.round, circuit.step)

\* C7: when the declared score differs from the value of the Score function
\* for the same witnesses, verify_proof returns an error, whether the edited
\* score is in the witness of the proof or only in the public inputs.
C7_EditedScoreFails ==
    (out.op = "verify_proof" /\ out.pi[6] # ExpectedScore)
        => out.r.kind = "Err"

\* A proof of honest witnesses was checked against a raised score.
C7_Witness ==
    /\ out.op = "verify_proof"
    /\ proof.sat
    /\ out.label = proof.label
    /\ circuit.score.value = ExpectedScore
    /\ out.pi[6] = (ExpectedScore + 100) % BlsModulus
    /\ out.r.kind = "Err"

\* C8: when a field of the bid was changed after the bid went into the tree
\* and before proving, verify_proof of the proof returns an error.
C8_EditedBidFails ==
    (out.op = "verify_proof" /\ circuit.bid # res.bid) => out.r.kind = "Err"

\* A proof over a bid with an overwritten hashed_secret was rejected, all else
\* being as in the honest flow.
C8_Witness ==
    /\ out.op = "verify_proof"
    /\ circuit.bid.hashed_secret # res.bid.hashed_secret
    /\ circuit.score.value = ExpectedScore
    /\ InWindow(circuit.bid, circuit.round)
    /\ out.label = proof.label
    /\ out.pi = CircuitInputs(circuit)
    /\ out.r.kind = "Err"

\* C9 (as claimed): verify_proof accepts a proof only if bid.eligibility <=
\* round and round <= bid.expiration for the round of the circuit.
C9_WindowAsClaimed ==
    (out.op = "verify_proof" /\ out.r.kind = "Ok") =>
        /\ circuit.bid.eligibility <= circuit.round
        /\ circuit.round <= circuit.bid.expiration

\* C10: a == b holds iff the digests of a and b are equal, and == is
\* reflexive, symmetric and transitive over the bids a caller holds.
C10_EqIsDigestEq ==
    out.op = "eq" =>
        /\ out.r <=> (BidHash(out.a) = BidHash(out.b))
        /\ BidEq(out.a, out.a)
        /\ out.r <=> BidEq(out.b, out.a)
        /\ \A c \in HeldBids : (out.r /\ BidEq(out.b, c)) => BidEq(out.a, c)

\* Two bids that differ in a field were compared and found unequal.
C10_Witness ==
    /\ out.op = "eq"
    /\ out.a # out.b
    /\ out.a.c = out.b.c
    /\ ~out.r

\* C11: every bid a successful Bid::new returns has pos = 0, hashed_secret =
\* H(secret_k) of the secret_k passed, the eligibility, expiration and
\* stealth_address passed, and its nonce, encrypted_data and c are the ones
\* set_value assigned: the nonce drawn, the encryption of (value, blinder)
\* under it and value*G + blinder*G_NUMS, with c off its placeholder.
C11_FieldsAfterNew ==
    (args.called /\ res.kind = "Ok") =>
        /\ res.bid.pos = 0
        /\ res.bid.hashed_secret = SpongeHash(<<args.secret_k>>)
        /\ res.bid.eligibility = args.eligibility
        /\ res.bid.expiration = args.expiration
        /\ res.bid.stealth_address = args.stealth_address
        /\ Len(res.draws) = 2
        /\ res.bid.nonce = res.draws[2].v
        /\ res.bid.encrypted_data =
              PoseidonEncrypt(<<IntoBls(args.value), IntoBls(res.draws[1].v)>>,
                              args.secret, res.draws[2].v)
        /\ res.bid.c = PointAdd(MulG(args.value), MulGNums(res.draws[1].v))
        /\ res.bid.c # JubJubAffineDefault
        /\ res.bid.encrypted_data # PoseidonCipherDefault

\* Bid::new succeeded with a second secret_k, eligibility and expiration
\* apart, and rng yielding zero for the nonce.
C11_Witness ==
    /\ args.called
    /\ res.kind = "Ok"
    /\ args.secret_k = 2
    /\ args.eligibility = 1
    /\ args.expiration = 2
    /\ res.draws[2].v = 0
    /\ res.bid.nonce = BlsScalarDefault

\* C12: to_bytes and from_bytes use one layout: cipher, nonce (32 B), stealth
\* address (64 B), hashed secret (32 B), commitment (32 B), eligibility,
\* expiration and position (8 B little-endian each), in that order; the
\* ranges start at 0, each begins where the one before ends, the last ends at
\* Self::SIZE = 280, and the buffer to_bytes returns holds in each range the
\* encoding of its field, which is what from_bytes decodes from that range.
C12_Layout ==
    /\ ToBytesRanges = FromBytesRanges
    /\ ToBytesRanges[1][1] = 0
    /\ \A i \in 1 .. 7 : ToBytesRanges[i][2] = ToBytesRanges[i + 1][1]
    /\ \A i \in 1 .. 8 : ToBytesRanges[i][1] < ToBytesRanges[i][2]
    /\ ToBytesRanges[8][2] = BidSize
    /\ BidSize = 280
    /\ [i \in 1 .. 8 |-> ToBytesRanges[i][2] - ToBytesRanges[i][1]]
          = <<PoseidonCipherSize, 32, 64, 32, 32, 8, 8, 8>>
    /\ out.op = "to_bytes" =>
          /\ buf.ok
          /\ Len(buf.bytes) = BidSize
          /\ \A i \in 1 .. 8 :
                Slice(buf.bytes, ToBytesRanges[i][1], ToBytesRanges[i][2])
                    = FieldBytes(bid)[i]
          /\ FromLE(Slice(buf.bytes, 256, 264)) = bid.eligibility
          /\ FromLE(Slice(buf.bytes, 264, 272)) = bid.expiration
          /\ FromLE(Slice(buf.bytes, 272, 280)) = bid.pos
    /\ out.op = "from_bytes" =>
          /\ out.r.kind = "Ok"
          /\ \A i \in 1 .. 8 :
                FieldBytes(out.r.bid)[i]
                    = Slice(buf.bytes, FromBytesRanges[i][1],
                            FromBytesRanges[i][2])

\* to_bytes ran on a bid whose nonce, hashed secret, eligibility and
\* expiration are all told apart by their bytes.
C12_Witness ==
    /\ out.op = "to_bytes"
    /\ buf.ok
    /\ bid.nonce # bid.hashed_secret
    /\ bid.eligibility # bid.expiration
    /\ bid.eligibility > 0
    /\ Slice(buf.bytes, 96, 128) # Slice(buf.bytes, 192, 224)

\* C13: after Bid::new and after every set_value, decrypt_data under the
\* shared secret and the nonce the bid holds yields the (value, blinder) of
\* the call, and c = value*G + blinder*G_NUMS for exactly that pair; nonce,
\* encrypted_data and c are all of the latest call, never of an earlier one.
C13_CommitmentMatchesCipher ==
    /\ (args.called /\ res.kind = "Ok") =>
          LET d == DecryptData(res.bid, args.secret)
          IN  /\ d = [kind |-> "Ok", value |-> args.value,
                      blinder |-> res.draws[1].v]
              /\ res.bid.c = PointAdd(MulG(d.value), MulGNums(d.blinder))
    /\ out.op = "set_value" =>
          LET d == DecryptData(bid, out.secret)
          IN  /\ d = [kind |-> "Ok", value |-> out.value,
                      blinder |-> out.draws[1].v]
              /\ bid.c = PointAdd(MulG(d.value), MulGNums(d.blinder))
              /\ bid.nonce = out.draws[2].v
              /\ bid.encrypted_data =
                    PoseidonEncrypt(<<IntoBls(d.value), IntoBls(d.blinder)>>,
                                    out.secret, bid.nonce)

\* set_value ran on a bid of Bid::new with another value, blinder, nonce and
\* secret than the construction had.
C13_Witness ==
    /\ out.op = "set_value"
    /\ out.value # args.value
    /\ out.secret # args.secret
    /\ out.draws[1].v # res.draws[1].v
    /\ out.draws[2].v # res.draws[2].v
    /\ bid.c # res.bid.c
    /\ bid.encrypted_data # res.bid.encrypted_data

C15_RngAfterRangeCheck ==
    [][pc = "start" =>
          /\ res'.kind # "Ok" =>
                /\ rngCount' = rngCount
                /\ res'.draws = << >>
          /\ res'.kind = "Ok" =>
                /\ rngCount' = rngCount + 2
                /\ Len(res'.draws) = 2
                /\ res'.draws[1].ty = "JubJubScalar"
                /\ res'.draws[2].ty = "BlsScalar"
                /\ res'.bid =
                      SetValue(EmptyBid(args'.stealth_address, args'.secret_k,
                                        args'.eligibility, args'.expiration),
                               res'.draws[1].v, res'.draws[2].v, args'.value,
                               args'.secret)]_vars

\* A Bid::new failed on a value below V_MIN and the randomness source is
\* where it was.
C15_Witness ==
    /\ args.called
    /\ res.kind = "MinimumBidValueUnreached"
    /\ args.value = V_RAW_MIN - 1
    /\ rngCount = 0
    /\ pc = "start"

====
